---- MODULE Spec2Model ----
(***************************************************************************)
(* Model of the template execution engine of gtmpl-rust (src/src/exec.rs). *)
(*                                                                         *)
(* Expression evaluation (eval_pipeline and everything below it) is        *)
(* modelled by recursive operators that thread the variable stack, exactly *)
(* as the Rust methods thread `&mut self`.  The tree walk (walk and the    *)
(* walk_* methods) is modelled as a machine with an explicit control       *)
(* stack `kont`, one action per method, so that the intermediate states    *)
(* of a render (frames pushed by range, States pushed by template) are     *)
(* states of the model.                                                    *)
(***************************************************************************)
EXTENDS Integers, Sequences, FiniteSets, TLC

\* Largest number of elements of an Array / Map / Object of the input data.
MaxElems == 2
\* Largest State.depth the model follows (the code never compares depth).
MaxDepth == 2
\* Largest number of variables of a frame handed to set_kth_last_var_value.
MaxVars == 3

(***************************************************************************)
(* Values: Arc<Any>.  Everything except Nothing is a gtmpl_value::Value.   *)
(***************************************************************************)
Nothing == [kind |-> "Nothing", n |-> 0, s |-> "", items |-> <<>>]
NoValue == [kind |-> "NoValue", n |-> 0, s |-> "", items |-> <<>>]
Null == [kind |-> "Null", n |-> 0, s |-> "", items |-> <<>>]
Bool(b) == [kind |-> "Bool", n |-> IF b THEN 1 ELSE 0, s |-> "", items |-> <<>>]
Integer(i) == [kind |-> "Integer", n |-> i, s |-> "", items |-> <<>>]
Str(t) == [kind |-> "String", n |-> 0, s |-> t, items |-> <<>>]
Array(vs) == [kind |-> "Array", n |-> 0, s |-> "", items |-> vs]
Map(kvs) == [kind |-> "Map", n |-> 0, s |-> "", items |-> kvs]
Object(kvs) == [kind |-> "Object", n |-> 0, s |-> "", items |-> kvs]
KV(key, value) == [k |-> key, v |-> value]

\* receiver.downcast_ref::<Value>() succeeds.
IsValue(v) == v.kind # "Nothing"

\* Option<Arc<Any>>
None == [some |-> FALSE, v |-> Nothing]
Some(x) == [some |-> TRUE, v |-> x]

\* Result<Arc<Any>, String> together with the variable stack it leaves.
Ok(v, vs) == [ok |-> TRUE, val |-> v, err |-> "", vars |-> vs]
Err(e, vs) == [ok |-> FALSE, val |-> Nothing, err |-> e, vars |-> vs]

Max(S) == CHOOSE x \in S : \A y \in S : y <= x

\* o.get(field_name) on the entries of a Map or an Object.
HasKey(kvs, key) == \E i \in 1..Len(kvs) : kvs[i].k = key
GetKey(kvs, key) == kvs[CHOOSE i \in 1..Len(kvs) : kvs[i].k = key].v

(***************************************************************************)
(* Nodes of the parse tree.                                                *)
(***************************************************************************)
DotN == [type |-> "Dot"]
NilN == [type |-> "Nil"]
BoolN(b) == [type |-> "Bool", value |-> Bool(b)]
NumberN(i) == [type |-> "Number", value |-> Integer(i)]
StringN(t) == [type |-> "String", value |-> Str(t)]
FieldN(ids) == [type |-> "Field", ident |-> ids]
VariableN(ids) == [type |-> "Variable", ident |-> ids]
IdentifierN(id) == [type |-> "Identifier", ident |-> id]
ChainN(base, fields) == [type |-> "Chain", node |-> base, field |-> fields]
CommandN(as) == [type |-> "Command", args |-> as]
PipeN(ds, cs) == [type |-> "Pipe", decl |-> ds, cmds |-> cs]
ListN(ns) == [type |-> "List", nodes |-> ns]
TextN(t) == [type |-> "Text", text |-> t]
ActionN(p) == [type |-> "Action", pipe |-> p]
IfN(p, l) == [type |-> "If", pipe |-> p, list |-> ListN(l), has_else |-> FALSE, else_list |-> ListN(<<>>)]
IfElseN(p, l, e) == [type |-> "If", pipe |-> p, list |-> ListN(l), has_else |-> TRUE, else_list |-> ListN(e)]
WithN(p, l) == [type |-> "With", pipe |-> p, list |-> ListN(l), has_else |-> FALSE, else_list |-> ListN(<<>>)]
WithElseN(p, l, e) == [type |-> "With", pipe |-> p, list |-> ListN(l), has_else |-> TRUE, else_list |-> ListN(e)]
RangeN(p, l) == [type |-> "Range", pipe |-> p, list |-> ListN(l), has_else |-> FALSE, else_list |-> ListN(<<>>)]
RangeElseN(p, l, e) == [type |-> "Range", pipe |-> p, list |-> ListN(l), has_else |-> TRUE, else_list |-> ListN(e)]
TemplateN(nm) == [type |-> "Template", name |-> nm, has_pipe |-> FALSE, pipe |-> PipeN(<<>>, <<>>)]
TemplatePipeN(nm, p) == [type |-> "Template", name |-> nm, has_pipe |-> TRUE, pipe |-> p]

(***************************************************************************)
(* Value bridge and function table: code of the repository outside         *)
(* exec.rs, modelled from the specification.                               *)
(***************************************************************************)
\* utils::is_true
is_true(v) ==
  CASE v.kind \in {"Nothing", "Null", "NoValue"} -> FALSE
    [] v.kind = "Bool" -> v.n = 1
    [] v.kind = "Integer" -> v.n # 0
    [] v.kind = "String" -> v.s # ""
    [] OTHER -> Len(v.items) > 0

\* Display of a Value.
RECURSIVE to_string(_)
RECURSIVE join_items(_, _, _)
join_items(items, i, keyed) ==
  IF i > Len(items) THEN ""
  ELSE (IF i > 1 THEN " " ELSE "")
       \o (IF keyed THEN items[i].k \o ":" \o to_string(items[i].v) ELSE to_string(items[i]))
       \o join_items(items, i + 1, keyed)
to_string(v) ==
  CASE v.kind = "NoValue" -> "<no value>"
    [] v.kind = "Null" -> "<nil>"
    [] v.kind = "Bool" -> IF v.n = 1 THEN "true" ELSE "false"
    [] v.kind = "Integer" -> ToString(v.n)
    [] v.kind = "String" -> v.s
    [] v.kind = "Array" -> "[" \o join_items(v.items, 1, FALSE) \o "]"
    [] OTHER -> "map[" \o join_items(v.items, 1, TRUE) \o "]"

\* The registered functions: self.template.funcs.
Funcs == {"eq", "lt", "len"}
call_func(name, arg_vals) ==
  CASE name = "eq" ->
         IF Len(arg_vals) # 2 THEN [ok |-> FALSE, val |-> Nothing, err |-> "eq requires 2 arguments"]
         ELSE [ok |-> TRUE, err |-> "",
               val |-> Bool(arg_vals[1].kind = arg_vals[2].kind /\ arg_vals[1] = arg_vals[2])]
    [] name = "lt" ->
         IF Len(arg_vals) # 2 THEN [ok |-> FALSE, val |-> Nothing, err |-> "lt requires 2 arguments"]
         ELSE IF arg_vals[1].kind # "Integer" \/ arg_vals[2].kind # "Integer"
              THEN [ok |-> FALSE, val |-> Nothing, err |-> "incompatible types for comparison"]
              ELSE [ok |-> TRUE, err |-> "", val |-> Bool(arg_vals[1].n < arg_vals[2].n)]
    [] OTHER ->
         IF Len(arg_vals) # 1 THEN [ok |-> FALSE, val |-> Nothing, err |-> "len requires 1 argument"]
         ELSE IF arg_vals[1].kind \in {"Array", "Map", "Object"}
              THEN [ok |-> TRUE, err |-> "", val |-> Integer(Len(arg_vals[1].items))]
              ELSE [ok |-> FALSE, val |-> Nothing, err |-> "len of type unsupported"]

(***************************************************************************)
(* Variable stack: State.vars, a deque of frames of Variables.             *)
(***************************************************************************)
Variable(nm, v) == [name |-> nm, value |-> v]

\* kth_last_index counting from the front of the frame instead of from its end.
kth_from_front(len, k) == IF len >= k /\ k >= 1 THEN k ELSE 0

\* The result of `last_vars.len() - k` on usize and of get_mut(i): the slot, or
\* 0 for None.  With overflow checks the subtraction panics when len < k;
\* without them it wraps to a huge index and get_mut returns None.
kth_last_index(len, k) == IF len >= k /\ k >= 1 THEN len - k + 1 ELSE 0

set_kth_last_var_value(vs, k, value, checks) ==
  IF Len(vs) = 0 THEN [ok |-> FALSE, panic |-> FALSE, err |-> "empty var stack", vars |-> vs]
  ELSE LET top == Len(vs)
           len == Len(vs[top])
           i == kth_last_index(len, k)
       IN IF len < k /\ checks
          THEN [ok |-> FALSE, panic |-> TRUE, err |-> "attempt to subtract with overflow", vars |-> vs]
          ELSE IF i = 0
               THEN [ok |-> FALSE, panic |-> FALSE, err |-> "current var context smaller than k", vars |-> vs]
               ELSE [ok |-> TRUE, panic |-> FALSE, err |-> "",
                     vars |-> [vs EXCEPT ![top][i].value = value]]

var_value(vs, key) ==
  LET hit(f) == {i \in 1..Len(vs[f]) : vs[f][i].name = key}
      frames == {f \in 1..Len(vs) : hit(f) # {}}
  IN IF frames = {} THEN Err("variable not found", vs)
     ELSE LET f == Max(frames) IN Ok(vs[f][Max(hit(f))].value, vs)

(***************************************************************************)
(* Expression evaluator.                                                   *)
(***************************************************************************)
not_a_function(args, val) == ~(Len(args) > 1 \/ val.some)

\* eval_field treating a Map like an Object: a missing key is an error.
eval_field_strict(receiver, field_name, args, fin, vs) ==
  IF IsValue(receiver) /\ ~(Len(args) > 1 \/ fin.some) /\ receiver.kind \in {"Object", "Map"}
  THEN IF HasKey(receiver.items, field_name)
       THEN Ok(GetKey(receiver.items, field_name), vs)
       ELSE Err("no field", vs)
  ELSE Err("only maps and objects have fields", vs)

eval_field(receiver, field_name, args, fin, vs) ==
  LET has_args == Len(args) > 1 \/ fin.some IN
  IF IsValue(receiver)
  THEN IF has_args
       THEN Err("has arguments but cannot be invoked as function", vs)
       ELSE CASE receiver.kind = "Object" ->
                   IF HasKey(receiver.items, field_name)
                   THEN Ok(GetKey(receiver.items, field_name), vs)
                   ELSE Err("no field", vs)
              [] receiver.kind = "Map" ->
                   IF HasKey(receiver.items, field_name)
                   THEN Ok(GetKey(receiver.items, field_name), vs)
                   ELSE Ok(NoValue, vs)
              [] OTHER -> Err("only maps and objects have fields", vs)
  ELSE Err("only basic fields are supported", vs)

RECURSIVE field_chain_from(_, _, _, _, _, _)
\* One turn of the loop of eval_field_chain: r is eval_field of identifier i.
field_chain_step(step, ident, i, args, fin, vs) ==
  IF step.ok THEN field_chain_from(step.val, ident, i + 1, args, fin, vs) ELSE step

\* The loop of eval_field_chain from identifier i on, r being the receiver so far.
field_chain_from(r, ident, i, args, fin, vs) ==
  IF i = Len(ident)
  THEN eval_field(r, ident[i], args, fin, vs)
  ELSE field_chain_step(eval_field(r, ident[i], <<>>, None, vs), ident, i, args, fin, vs)

eval_field_chain(receiver, ident, args, fin, vs) ==
  IF Len(ident) < 1 THEN Err("field chain without fields :/", vs)
  ELSE field_chain_from(receiver, ident, 1, args, fin, vs)

eval_field_node(dot, field, args, fin, vs) ==
  eval_field_chain(dot, field.ident, args, fin, vs)

\* eval_variable_node once var_value has answered val.
variable_result(val, variable, args, fin, vs) ==
  IF ~val.ok THEN val
  ELSE IF Len(variable.ident) = 1
       THEN IF not_a_function(args, fin) THEN Ok(val.val, vs)
            ELSE Err("can't give arument to non-function", vs)
       ELSE eval_field_chain(val.val, Tail(variable.ident), args, fin, vs)

eval_variable_node(variable, args, fin, vs) ==
  variable_result(var_value(vs, variable.ident[1]), variable, args, fin, vs)

\* call_arg_vals with the pipeline input put first instead of last.
call_arg_vals_input_first(arg_vals, fin) == IF fin.some THEN <<fin.v>> \o arg_vals ELSE arg_vals

\* The argument list of a call: the evaluated arguments, then the pipeline input.
call_arg_vals(arg_vals, fin) == IF fin.some THEN Append(arg_vals, fin.v) ELSE arg_vals

\* declare putting the new variables in front of the top frame.
declare_in_front(vs, decl, val) ==
  [vs EXCEPT ![Len(vs)] = [i \in 1..Len(decl) |-> Variable(decl[i].ident[1], val)] \o @]

\* The declarations of a pipeline appended to the top frame.
declare(vs, decl, val) ==
  [vs EXCEPT ![Len(vs)] = @ \o [i \in 1..Len(decl) |-> Variable(decl[i].ident[1], val)]]

RECURSIVE eval_pipeline(_, _, _)
RECURSIVE pipeline_cmds(_, _, _, _, _)
RECURSIVE eval_command(_, _, _, _)
RECURSIVE eval_arg(_, _, _)
RECURSIVE eval_chain_node(_, _, _, _, _)
RECURSIVE eval_call(_, _, _, _, _)
RECURSIVE call_args_from(_, _, _, _, _)

\* One turn of the loop over pipe.cmds: r is eval_command of command i.
pipeline_step(r, dot, cmds, i) ==
  IF r.ok THEN pipeline_cmds(r.vars, dot, cmds, i + 1, Some(r.val))
  ELSE [ok |-> FALSE, val |-> None, err |-> r.err, vars |-> r.vars]

\* The loop over pipe.cmds of eval_pipeline: command i on, val the value so far.
pipeline_cmds(vs, dot, cmds, i, val) ==
  IF i > Len(cmds) THEN [ok |-> TRUE, val |-> val, err |-> "", vars |-> vs]
  ELSE pipeline_step(eval_command(vs, dot, cmds[i], val), dot, cmds, i)

\* eval_pipeline after the loop: r is what the commands gave.
pipeline_result(r, pipe) ==
  IF ~r.ok THEN Err(r.err, r.vars)
  ELSE IF ~r.val.some THEN Err("error evaluating pipeline", r.vars)
  ELSE IF Len(pipe.decl) > 0 /\ Len(r.vars) = 0
       THEN Err("no stack while evaluating pipeline", r.vars)
       ELSE Ok(r.val.v, IF Len(pipe.decl) > 0 THEN declare(r.vars, pipe.decl, r.val.v) ELSE r.vars)

eval_pipeline(vs, dot, pipe) ==
  pipeline_result(pipeline_cmds(vs, dot, pipe.cmds, 1, None), pipe)

eval_function(vs, dot, ident, args, fin) ==
  IF ident.ident \notin Funcs THEN Err("is not a defined function", vs)
  ELSE eval_call(vs, dot, ident.ident, args, fin)

\* One turn of the loop over args[1..]: r is eval_arg of argument i.
call_args_step(r, dot, args, i, acc) ==
  IF r.ok THEN call_args_from(r.vars, dot, args, i + 1, Append(acc, r.val))
  ELSE [ok |-> FALSE, vals |-> acc, err |-> r.err, vars |-> r.vars]

\* The loop over args[1..] of eval_call: argument i on, acc the values so far.
call_args_from(vs, dot, args, i, acc) ==
  IF i > Len(args) THEN [ok |-> TRUE, vals |-> acc, err |-> "", vars |-> vs]
  ELSE call_args_step(eval_arg(vs, dot, args[i]), dot, args, i, acc)

\* function(&arg_vals)
apply_func(r, vs) == IF r.ok THEN Ok(r.val, vs) ELSE Err(r.err, vs)

\* eval_call after the loop: a is what the arguments gave.
call_result(a, function, fin) ==
  IF ~a.ok THEN Err(a.err, a.vars)
  ELSE apply_func(call_func(function, call_arg_vals(a.vals, fin)), a.vars)

eval_call(vs, dot, function, args, fin) ==
  call_result(call_args_from(vs, dot, args, 2, <<>>), function, fin)

\* eval_chain_node once the base of the chain has evaluated to pipe.
chain_result(pipe, chain, args, fin) ==
  IF ~pipe.ok THEN pipe
  ELSE eval_field_chain(pipe.val, chain.field, args, fin, pipe.vars)

eval_chain_node(vs, dot, chain, args, fin) ==
  IF Len(chain.field) = 0 THEN Err("internal error: no fields in eval_chain_node", vs)
  ELSE IF chain.node.type = "Nil" THEN Err("inderection throug explicit nul", vs)
  ELSE chain_result(eval_arg(vs, dot, chain.node), chain, args, fin)

eval_arg(vs, dot, node) ==
  CASE node.type = "Dot" -> Ok(dot, vs)
    [] node.type = "Field" -> eval_field_node(dot, node, <<>>, None, vs)
    [] node.type = "Variable" -> eval_variable_node(node, <<>>, None, vs)
    [] node.type = "Pipe" -> eval_pipeline(vs, dot, node)
    [] node.type = "Chain" -> eval_chain_node(vs, dot, node, <<>>, None)
    [] node.type \in {"String", "Bool", "Number"} -> Ok(node.value, vs)
    [] OTHER -> Err("cant handle node as arg", vs)

\* eval_command past the first dispatch: the literal first words and dot.
eval_literal(first_word, args, val, dot, vs) ==
  IF ~not_a_function(args, val) THEN Err("can't give arument to non-function", vs)
  ELSE CASE first_word.type \in {"Bool", "Number"} -> Ok(first_word.value, vs)
         [] first_word.type = "Dot" -> Ok(dot, vs)
         [] OTHER -> Err("cannot evaluate command", vs)

\* eval_command on its first word.
command_dispatch(first_word, vs, dot, cmd, val) ==
  CASE first_word.type = "Field" -> eval_field_node(dot, first_word, cmd.args, val, vs)
    [] first_word.type = "Variable" -> eval_variable_node(first_word, cmd.args, val, vs)
    [] first_word.type = "Pipe" -> eval_pipeline(vs, dot, first_word)
    [] first_word.type = "Chain" -> eval_chain_node(vs, dot, first_word, cmd.args, val)
    [] first_word.type = "Identifier" -> eval_function(vs, dot, first_word, cmd.args, val)
    [] OTHER -> eval_literal(first_word, cmd.args, val, dot, vs)

eval_command(vs, dot, cmd, val) ==
  IF Len(cmd.args) = 0 THEN Err("no arguments for command node", vs)
  ELSE command_dispatch(cmd.args[1], vs, dot, cmd, val)

\* print_value: the text written, or the failure to format.
print_value(val) ==
  IF IsValue(val) THEN [ok |-> TRUE, text |-> to_string(val), err |-> ""]
  ELSE [ok |-> FALSE, text |-> "", err |-> "unable to format value"]

(***************************************************************************)
(* Inputs: the data handed to Context::from / Context::empty and the       *)
(* parsed template sets.                                                   *)
(***************************************************************************)
KeyNames == <<"a", "b", "c", "d">>
ArrayOf(n) == Array([i \in 1..n |-> Integer(10 + i)])
MapOf(n) == Map([i \in 1..n |-> KV(KeyNames[i], Integer(20 + i))])
ObjectOf(n) == Object([i \in 1..n |-> KV(KeyNames[i], Integer(30 + i))])
FooObject == Object(<<KV("foo", Integer(1)), KV("bar", MapOf(1))>>)

DataCat ==
  <<Nothing, Integer(1), Str("s"), Bool(FALSE), Null, NoValue, FooObject>>
  \o [i \in 1..(MaxElems + 1) |-> ArrayOf(i - 1)]
  \o [i \in 1..(MaxElems + 1) |-> MapOf(i - 1)]
  \o [i \in 1..MaxElems |-> ObjectOf(i)]

Decl(nm) == VariableN(<<nm>>)
Cmd1(a) == CommandN(<<a>>)
Cmd2(a, b) == CommandN(<<a, b>>)
Cmd3(a, b, c) == CommandN(<<a, b, c>>)
P1(c) == PipeN(<<>>, <<c>>)
P2(c1, c2) == PipeN(<<>>, <<c1, c2>>)
Fn(f) == IdentifierN(f)

\* The pipelines of the action templates {{ pipe }}.
PipeCat ==
  << P1(Cmd1(DotN)),                                      \* .
     P1(Cmd1(StringN("s"))),                              \* "s"
     P1(Cmd1(NumberN(1))),                                \* 1
     P1(Cmd1(BoolN(TRUE))),                               \* true
     P1(Cmd1(FieldN(<<"foo">>))),                         \* .foo
     P1(Cmd1(FieldN(<<"zzz">>))),                         \* .zzz
     P1(Cmd1(FieldN(<<"zzz", "foo">>))),                  \* .zzz.foo
     P1(Cmd1(FieldN(<<"bar", "a">>))),                    \* .bar.a
     P1(Cmd1(FieldN(<<"bar", "zzz">>))),                  \* .bar.zzz
     P1(Cmd1(VariableN(<<"$">>))),                        \* $
     P1(Cmd1(VariableN(<<"$", "zzz">>))),                 \* $.zzz
     P1(Cmd1(VariableN(<<"$x">>))),                       \* $x
     P1(Cmd1(ChainN(PipeN(<<>>, <<Cmd1(DotN)>>), <<"zzz">>))),   \* (.).zzz
     P1(Cmd1(ChainN(NilN, <<"foo">>))),                   \* nil.foo
     P1(Cmd1(PipeN(<<>>, <<Cmd1(NumberN(2))>>))),         \* (2)
     P1(Cmd3(Fn("lt"), NumberN(2), NumberN(1))),          \* lt 2 1
     P2(Cmd1(NumberN(1)), Cmd2(Fn("lt"), NumberN(2))),    \* 1 | lt 2
     P2(Cmd1(DotN), Cmd2(Fn("lt"), NumberN(1))),          \* . | lt 1
     P2(Cmd1(DotN), Cmd2(Fn("eq"), StringN("s"))),        \* . | eq "s"
     P2(Cmd1(FieldN(<<"foo">>)), Cmd2(Fn("lt"), NumberN(0))),   \* .foo | lt 0
     P2(Cmd1(BoolN(TRUE)), Cmd2(Fn("eq"), FieldN(<<"zzz">>))),  \* true | eq .zzz
     P1(Cmd2(Fn("len"), DotN)),                           \* len .
     P2(Cmd1(NumberN(1)), Cmd2(Fn("len"), DotN)),         \* 1 | len .
     PipeN(<<>>, <<Cmd1(NumberN(2)), Cmd2(Fn("lt"), NumberN(1)), Cmd2(Fn("eq"), BoolN(TRUE))>>), \* 2 | lt 1 | eq true
     P2(Cmd1(NumberN(1)), Cmd1(Fn("nosuch"))),            \* 1 | nosuch
     P2(Cmd1(NumberN(1)), Cmd1(PipeN(<<>>, <<Cmd1(NumberN(2))>>))),   \* 1 | (2)
     P1(Cmd2(PipeN(<<>>, <<Cmd1(NumberN(2))>>), NumberN(1))),         \* (2) 1
     P2(Cmd1(DotN), Cmd1(FieldN(<<"zzz">>))),             \* . | .zzz
     P1(Cmd2(FieldN(<<"zzz">>), NumberN(1))),             \* .zzz 1
     P2(Cmd1(NumberN(1)), Cmd1(VariableN(<<"$">>))),      \* 1 | $
     P1(Cmd2(VariableN(<<"$", "zzz">>), NumberN(1))),     \* $.zzz 1
     P2(Cmd1(NumberN(1)), Cmd1(ChainN(DotN, <<"zzz">>))), \* 1 | (.).zzz
     P2(Cmd1(NumberN(1)), Cmd1(DotN)),                    \* 1 | .
     P1(Cmd2(NumberN(1), NumberN(2))),                    \* 1 2
     P2(Cmd1(NumberN(1)), Cmd1(StringN("s"))),            \* 1 | "s"
     P1(Cmd2(BoolN(TRUE), DotN)),                         \* true .
     P1(Cmd2(Fn("len"), NilN)),                           \* len nil
     P2(Cmd1(PipeN(<<Decl("$x")>>, <<Cmd1(NumberN(1))>>)),
        Cmd2(Fn("lt"), VariableN(<<"$x">>))),             \* ($x := 1) | lt $x
     PipeN(<<>>, <<>>),                                   \* an empty pipeline
     P1(CommandN(<<>>)) >>                                \* an empty command

Tree(nm, r) == [name |-> nm, has_root |-> TRUE, root |-> r]
NoRootTree(nm) == [name |-> nm, has_root |-> FALSE, root |-> ListN(<<>>)]
Single(r) == [ids |-> <<"main">>, trees |-> <<Tree("main", r)>>]
WithT(r, t) == [ids |-> <<"main">>, trees |-> <<Tree("main", r), Tree("t", t)>>]

PDot == P1(Cmd1(DotN))
PVar(nm) == P1(Cmd1(VariableN(<<nm>>)))
PDecl1 == PipeN(<<Decl("$v")>>, <<Cmd1(DotN)>>)
PDecl2 == PipeN(<<Decl("$k"), Decl("$v")>>, <<Cmd1(DotN)>>)
PDecl3 == PipeN(<<Decl("$a"), Decl("$k"), Decl("$v")>>, <<Cmd1(DotN)>>)
PSet(nm, c) == PipeN(<<Decl(nm)>>, <<c>>)

ActionTemplates == [i \in 1..Len(PipeCat) |-> Single(ListN(<<ActionN(PipeCat[i])>>))]

RangeTemplates ==
  << \* {{range .}}{{.}}{{else}}E{{end}}T
     Single(ListN(<<RangeElseN(PDot, <<ActionN(PDot)>>, <<TextN("E")>>), TextN("T")>>)),
     \* {{range .}}{{.}}{{end}}
     Single(ListN(<<RangeN(PDot, <<ActionN(PDot)>>)>>)),
     \* {{range $k, $v := .}}{{$k}}{{$v}}{{else}}E{{end}}
     Single(ListN(<<RangeElseN(PDecl2, <<ActionN(PVar("$k")), ActionN(PVar("$v"))>>, <<TextN("E")>>)>>)),
     \* {{range $v := .}}{{$v}}{{end}}{{$v}}
     Single(ListN(<<RangeN(PDecl1, <<ActionN(PVar("$v"))>>), ActionN(PVar("$v"))>>)),
     \* {{range $a, $k, $v := .}}{{$a}}{{end}}
     Single(ListN(<<RangeN(PDecl3, <<ActionN(PVar("$a"))>>)>>)),
     \* {{range .}}{{.zzz}}{{else}}E{{end}}T
     Single(ListN(<<RangeElseN(PDot, <<ActionN(P1(Cmd1(FieldN(<<"zzz">>))))>>, <<TextN("E")>>), TextN("T")>>)),
     \* {{$x := 0}}{{range $k, $v := .}}{{$y := .}}{{$x}}{{end}}{{$x}}{{$k}}
     Single(ListN(<<ActionN(PSet("$x", Cmd1(NumberN(0)))),
                    RangeN(PDecl2, <<ActionN(PSet("$y", Cmd1(DotN))), ActionN(PVar("$x"))>>),
                    ActionN(PVar("$x")), ActionN(PVar("$k"))>>)),
     \* {{range .}}{{range $k, $v := $}}{{$v}}{{end}}{{end}}
     Single(ListN(<<RangeN(PDot, <<RangeN(PipeN(<<Decl("$k"), Decl("$v")>>, <<Cmd1(VariableN(<<"$">>))>>),
                                           <<ActionN(PVar("$v"))>>)>>)>>)),
     \* {{range .bar}}{{.}}{{else}}E{{end}}
     Single(ListN(<<RangeElseN(P1(Cmd1(FieldN(<<"bar">>))), <<ActionN(PDot)>>, <<TextN("E")>>)>>)),
     \* {{range .}}{{template "t" .}}{{end}}   with t: {{$y := .}}{{lt $y 12}}
     WithT(ListN(<<RangeN(PDot, <<TemplatePipeN("t", PDot)>>)>>),
           ListN(<<ActionN(PSet("$y", Cmd1(DotN))),
                   ActionN(P1(Cmd3(Fn("lt"), VariableN(<<"$y">>), NumberN(12))))>>)) >>

TemplateTemplates ==
  << \* {{$x := 1}}{{template "t" .foo}}{{$x}}   with t: {{$y := 2}}{{.}}{{$}}
     WithT(ListN(<<ActionN(PSet("$x", Cmd1(NumberN(1)))),
                   TemplatePipeN("t", P1(Cmd1(FieldN(<<"foo">>)))),
                   ActionN(PVar("$x"))>>),
           ListN(<<ActionN(PSet("$y", Cmd1(NumberN(2)))), ActionN(PDot), ActionN(PVar("$"))>>)),
     \* {{$x := 1}}{{template "t"}}{{$y}}   with t: {{$y := 2}}{{$y}}
     WithT(ListN(<<ActionN(PSet("$x", Cmd1(NumberN(1)))), TemplateN("t"), ActionN(PVar("$y"))>>),
           ListN(<<ActionN(PSet("$y", Cmd1(NumberN(2)))), ActionN(PVar("$y"))>>)),
     \* {{$x := 1}}{{template "t" .}}A   with t: {{$x}}
     WithT(ListN(<<ActionN(PSet("$x", Cmd1(NumberN(1)))), TemplatePipeN("t", PDot), TextN("A")>>),
           ListN(<<ActionN(PVar("$x"))>>)),
     \* {{with .bar}}{{template "t" 1}}{{end}}   with t: {{.}}{{$}}
     WithT(ListN(<<WithN(P1(Cmd1(FieldN(<<"bar">>))), <<TemplatePipeN("t", P1(Cmd1(NumberN(1))))>>)>>),
           ListN(<<ActionN(PDot), ActionN(PVar("$"))>>)),
     \* {{template "missing" .}}
     Single(ListN(<<TemplatePipeN("missing", PDot)>>)),
     \* {{template "t" .}}   with t defined without a root
     [ids |-> <<"main">>, trees |-> <<Tree("main", ListN(<<TemplatePipeN("t", PDot)>>)), NoRootTree("t")>>],
     \* A{{template "main" .}}
     Single(ListN(<<TextN("A"), TemplatePipeN("main", PDot)>>)) >>

OtherTemplates ==
  << \* {{if .}}A{{else}}B{{end}}
     Single(ListN(<<IfElseN(PDot, <<TextN("A")>>, <<TextN("B")>>)>>)),
     \* {{if .}}{{.}}{{end}}
     Single(ListN(<<IfN(PDot, <<ActionN(PDot)>>)>>)),
     \* {{with .foo}}{{.}}{{else}}{{.}}{{end}}
     Single(ListN(<<WithElseN(P1(Cmd1(FieldN(<<"foo">>))), <<ActionN(PDot)>>, <<ActionN(PDot)>>)>>)),
     \* {{with $x := .}}{{$x}}{{end}}{{$x}}
     Single(ListN(<<WithN(PSet("$x", Cmd1(DotN)), <<ActionN(PVar("$x"))>>), ActionN(PVar("$x"))>>)),
     \* text only
     Single(ListN(<<TextN("hello")>>)),
     \* a root that is no statement node
     Single(DotN),
     \* no template with id 1
     [ids |-> <<>>, trees |-> <<>>],
     \* id 1 names a template without a root
     [ids |-> <<"main">>, trees |-> <<NoRootTree("main")>>] >>

\* Templates about the dot of the branches and the life of declared variables.
ScopeTemplates ==
  << \* {{if .foo}}{{.}}{{else}}{{.}}{{end}}
     Single(ListN(<<IfElseN(P1(Cmd1(FieldN(<<"foo">>))), <<ActionN(PDot)>>, <<ActionN(PDot)>>)>>)),
     \* {{with .a}}{{.}}{{end}}
     Single(ListN(<<WithN(P1(Cmd1(FieldN(<<"a">>))), <<ActionN(PDot)>>)>>)),
     \* A{{range .}}{{.}}{{.zzz}}{{else}}E{{end}}T
     Single(ListN(<<TextN("A"),
                    RangeElseN(PDot, <<ActionN(PDot), ActionN(P1(Cmd1(FieldN(<<"zzz">>))))>>, <<TextN("E")>>),
                    TextN("T")>>)),
     \* {{with .bar}}{{range $k, $v := .}}{{$}}{{end}}{{end}}
     Single(ListN(<<WithN(P1(Cmd1(FieldN(<<"bar">>))),
                          <<RangeN(PDecl2, <<ActionN(PVar("$"))>>)>>)>>)),
     \* {{if .}}{{$z := 1}}{{end}}{{$z}}
     Single(ListN(<<IfN(PDot, <<ActionN(PSet("$z", Cmd1(NumberN(1))))>>), ActionN(PVar("$z"))>>)),
     \* {{$ := 1}}{{$}}
     Single(ListN(<<ActionN(PSet("$", Cmd1(NumberN(1)))), ActionN(PVar("$"))>>)),
     \* {{if .}}{{end}}T
     Single(ListN(<<IfN(PDot, <<>>), TextN("T")>>)) >>

TemplateCat ==
  ActionTemplates \o RangeTemplates \o TemplateTemplates \o OtherTemplates \o ScopeTemplates

(***************************************************************************)
(* The render: Template::execute and the walk.                             *)
(***************************************************************************)
VARIABLES
  tree_set,         \* Template.tree_ids and Template.tree_set
  data,             \* the dot of the Context passed to execute
  overflow_checks,  \* whether the build panics on integer overflow
  states,           \* the live States, innermost last: each [vars, depth]
  kont,             \* the pending work of the walk, next first
  out,              \* the bytes written to the writer
  pc,               \* "init", "run", "unwind" (an Err is returning), "done", "panic"
  err               \* the Err being returned, "" for none

vars == <<tree_set, data, overflow_checks, states, kont, out, pc, err>>

Init ==
  /\ \E i \in 1..Len(TemplateCat) : tree_set = TemplateCat[i]
  /\ \E i \in 1..Len(DataCat) : data = DataCat[i]
  /\ overflow_checks \in BOOLEAN
  /\ states = <<>>
  /\ kont = <<>>
  /\ out = ""
  /\ pc = "init"
  /\ err = ""

\* self.template.tree_set.get(name)
HasTree(name) == \E i \in 1..Len(tree_set.trees) : tree_set.trees[i].name = name
GetTree(name) == tree_set.trees[CHOOSE i \in 1..Len(tree_set.trees) : tree_set.trees[i].name = name]

Top == kont[1]
CurState == states[Len(states)]
CurVars == CurState.vars
SetVars(vs) == [states EXCEPT ![Len(states)].vars = vs]

WalkItem(node, dot) == [op |-> "walk", node |-> node, dot |-> dot]
\* walk_list: the children of a list, each walked against the same context.
walk_list(list, dot) == [i \in 1..Len(list.nodes) |-> WalkItem(list.nodes[i], dot)]

Walking(type) == pc = "run" /\ Len(kont) > 0 /\ Top.op = "walk" /\ Top.node.type = type
\* Raise with the caller dropping the Err instead of returning it.
raise_ignored(e) == pc' = pc /\ err' = e /\ kont' = Tail(kont)

\* The method on top returns Err(e): `?` hands it to the callers.
Raise(e) == pc' = "unwind" /\ err' = e /\ kont' = Tail(kont)
\* The method on top goes on with the work k.
Continue(k) == pc' = pc /\ err' = err /\ kont' = k
Inputs == <<tree_set, data, overflow_checks>>

\* new_state without the binding of `$`.
new_state_unbound(dot, depth) == [vars |-> <<<<>>>>, depth |-> depth]

\* new_state with the depth counter already at the depth the model follows.
new_state_at_ceiling(dot, depth) == [vars |-> <<<<Variable("$", dot)>>>>, depth |-> MaxDepth]

\* The State a template invocation runs in.
new_state(dot, depth) == [vars |-> <<<<Variable("$", dot)>>>>, depth |-> depth]

Execute ==
  /\ pc = "init"
  /\ states' = <<new_state(data, 0)>>
  /\ out' = out
  /\ IF Len(tree_set.ids) >= 1 /\ HasTree(tree_set.ids[1]) /\ GetTree(tree_set.ids[1]).has_root
     THEN pc' = "run" /\ err' = err /\ kont' = <<WalkItem(GetTree(tree_set.ids[1]).root, data)>>
     ELSE pc' = "unwind" /\ err' = "is an incomplete or empty template" /\ kont' = kont
  /\ UNCHANGED Inputs

\* The Action arm of walk once the pipeline has given r and print_value p.
action_done(r, p) ==
  /\ states' = SetVars(r.vars)
  /\ IF ~r.ok THEN Raise(r.err) /\ out' = out
     ELSE IF Len(Top.node.pipe.decl) > 0 THEN Continue(Tail(kont)) /\ out' = out
     ELSE IF p.ok THEN Continue(Tail(kont)) /\ out' = out \o p.text
     ELSE Raise(p.err) /\ out' = out

action_eval(r) == action_done(r, print_value(r.val))

WalkAction ==
  /\ Walking("Action")
  /\ action_eval(eval_pipeline(CurVars, Top.dot, Top.node.pipe))
  /\ UNCHANGED Inputs

\* if_or_with_branch with `with` setting dot for the else branch as well.
if_or_with_shadowing(n, r) ==
  /\ states' = SetVars(r.vars)
  /\ IF ~r.ok THEN Raise(r.err)
     ELSE IF is_true(r.val)
          THEN Continue(walk_list(n.list, IF n.type = "With" THEN r.val ELSE Top.dot) \o Tail(kont))
          ELSE IF n.has_else
               THEN Continue(walk_list(n.else_list, IF n.type = "With" THEN r.val ELSE Top.dot)
                             \o Tail(kont))
               ELSE Continue(Tail(kont))

\* walk_if_or_with once the pipeline has given r.
if_or_with_branch(n, r) ==
  /\ states' = SetVars(r.vars)
  /\ IF ~r.ok THEN Raise(r.err)
     ELSE IF is_true(r.val)
          THEN Continue(walk_list(n.list, IF n.type = "With" THEN r.val ELSE Top.dot) \o Tail(kont))
          ELSE IF n.has_else THEN Continue(walk_list(n.else_list, Top.dot) \o Tail(kont))
               ELSE Continue(Tail(kont))

WalkIfOrWith ==
  /\ Walking("If") \/ Walking("With")
  /\ if_or_with_branch(Top.node, eval_pipeline(CurVars, Top.dot, Top.node.pipe))
  /\ out' = out
  /\ UNCHANGED Inputs

IterItem(key, val, range) == [op |-> "iter", key |-> key, val |-> val, range |-> range]

\* The (key, element) pairs a range visits, in the order perm.
range_items(value, perm, range) ==
  [i \in 1..Len(value.items) |->
     IF value.kind = "Array"
     THEN IterItem(Integer(i - 1), value.items[i], range)
     ELSE IterItem(Str(value.items[perm[i]].k), value.items[perm[i]].v, range)]

\* What walk_range does once the iterations are over.
after_range(range, dot, val) == [op |-> "range_else", range |-> range, dot |-> dot, val |-> val]

\* walk_range once the pipeline has given r.
range_loop(range, r) ==
  /\ states' = SetVars(r.vars)
  /\ IF ~r.ok THEN Raise(r.err)
     ELSE IF IsValue(r.val)
          THEN IF r.val.kind \in {"Object", "Map", "Array"}
               THEN \E perm \in Permutations(1..Len(r.val.items)) :
                      Continue(range_items(r.val, perm, range)
                               \o <<after_range(range, Top.dot, r.val)>> \o Tail(kont))
               ELSE Raise("invalid range")
          ELSE Continue(<<after_range(range, Top.dot, r.val)>> \o Tail(kont))

WalkRange ==
  /\ Walking("Range")
  /\ range_loop(Top.node, eval_pipeline(CurVars, Top.dot, Top.node.pipe))
  /\ out' = out
  /\ UNCHANGED Inputs

RangeElse ==
  /\ pc = "run" /\ Len(kont) > 0 /\ Top.op = "range_else"
  /\ IF Top.range.has_else
     THEN Continue(walk_list(Top.range.else_list, Top.dot) \o Tail(kont))
     ELSE Continue(Tail(kont))
  /\ UNCHANGED <<states, out>>
  /\ UNCHANGED Inputs

\* The second rebinding of one_iteration, r1 being the outcome of the first.
rebind_key(r1, key, decl_len, checks) ==
  IF r1.ok /\ decl_len > 1 THEN set_kth_last_var_value(r1.vars, 2, key, checks) ELSE r1

\* The rebinding of the declared variables at the head of one_iteration.
rebind(vs, key, val, decl_len, checks) ==
  rebind_key(IF decl_len > 0 THEN set_kth_last_var_value(vs, 1, val, checks)
             ELSE [ok |-> TRUE, panic |-> FALSE, err |-> "", vars |-> vs],
             key, decl_len, checks)

\* one_iteration after the rebinding r: the frame pushed and the body walked.
iteration_body(r) ==
  IF r.panic THEN pc' = "panic" /\ err' = r.err /\ kont' = kont /\ states' = states
  ELSE IF ~r.ok THEN Raise(r.err) /\ states' = SetVars(r.vars)
  ELSE /\ states' = SetVars(Append(r.vars, <<>>))
       /\ Continue(walk_list(Top.range.list, Top.val)
                   \o <<[op |-> "iter_end", entry |-> Len(CurVars)]>> \o Tail(kont))

OneIteration ==
  /\ pc = "run" /\ Len(kont) > 0 /\ Top.op = "iter"
  /\ iteration_body(rebind(CurVars, Top.key, Top.val, Len(Top.range.pipe.decl), overflow_checks))
  /\ out' = out
  /\ UNCHANGED Inputs

\* pop_back that also ends the scope of the variables declared in the frame
\* below, leaving that frame with its first variable only.
pop_back_scoped(vs) ==
  IF Len(vs) <= 1 THEN <<>>
  ELSE [SubSeq(vs, 1, Len(vs) - 1) EXCEPT ![Len(vs) - 1] = SubSeq(@, 1, 1)]

\* self.vars.pop_back()
pop_back(vs) == IF Len(vs) = 0 THEN vs ELSE SubSeq(vs, 1, Len(vs) - 1)

IterationEnd ==
  /\ pc = "run" /\ Len(kont) > 0 /\ Top.op = "iter_end"
  /\ states' = SetVars(pop_back(CurVars))
  /\ Continue(Tail(kont))
  /\ out' = out
  /\ UNCHANGED Inputs

WalkList ==
  /\ Walking("List")
  /\ Continue(walk_list(Top.node, Top.dot) \o Tail(kont))
  /\ UNCHANGED <<states, out>>
  /\ UNCHANGED Inputs

WalkText ==
  /\ Walking("Text")
  /\ out' = out \o Top.node.text
  /\ Continue(Tail(kont))
  /\ UNCHANGED states
  /\ UNCHANGED Inputs

WalkTemplate ==
  /\ Walking("Template")
  /\ CurState.depth < MaxDepth
  /\ IF HasTree(Top.node.name) /\ GetTree(Top.node.name).has_root
     THEN /\ states' = Append(states, new_state(Top.dot, CurState.depth + 1))
          /\ Continue(<<WalkItem(GetTree(Top.node.name).root, Top.dot), [op |-> "tmpl_end"]>>
                      \o Tail(kont))
     ELSE Raise("work in progress") /\ states' = states
  /\ out' = out
  /\ UNCHANGED Inputs

\* new_state.walk returned Ok: new_state is dropped.
TemplateReturn ==
  /\ pc = "run" /\ Len(kont) > 0 /\ Top.op = "tmpl_end"
  /\ states' = SubSeq(states, 1, Len(states) - 1)
  /\ Continue(Tail(kont))
  /\ out' = out
  /\ UNCHANGED Inputs

WalkUnknown ==
  /\ pc = "run" /\ Len(kont) > 0 /\ Top.op = "walk"
  /\ Top.node.type \notin {"Action", "If", "With", "Range", "List", "Text", "Template"}
  /\ Raise("unknown node")
  /\ UNCHANGED <<states, out>>
  /\ UNCHANGED Inputs

\* An Err returns through one caller: the work that caller still had is
\* skipped, and a State owned by it is dropped.
Propagate ==
  /\ pc = "unwind" /\ Len(kont) > 0
  /\ kont' = Tail(kont)
  /\ states' = IF Top.op = "tmpl_end" THEN SubSeq(states, 1, Len(states) - 1) ELSE states
  /\ UNCHANGED <<out, pc, err>>
  /\ UNCHANGED Inputs

\* execute returns.
Return ==
  /\ pc \in {"run", "unwind"} /\ Len(kont) = 0
  /\ pc' = "done"
  /\ UNCHANGED <<states, kont, out, err>>
  /\ UNCHANGED Inputs

Next ==
  \/ Execute
  \/ WalkAction
  \/ WalkIfOrWith
  \/ WalkRange
  \/ RangeElse
  \/ OneIteration
  \/ IterationEnd
  \/ WalkList
  \/ WalkText
  \/ WalkTemplate
  \/ TemplateReturn
  \/ WalkUnknown
  \/ Propagate
  \/ Return

Spec == Init /\ [][Next]_vars

\* The states from which the render takes no step: execute has returned or
\* panicked, or the nesting of template invocations has reached the depth
\* the model follows.
Terminal ==
  \/ pc \in {"done", "panic"}
  \/ Walking("Template") /\ CurState.depth >= MaxDepth

\* The render as the one thread that runs it: a method that can take its
\* next step takes it.  This is WF_vars(Next) with ENABLED <<Next>>_vars
\* written out as ~Terminal.
LiveSpec == Init /\ [][Next]_vars /\ ([]<>Terminal \/ []<><<Next>>_vars)

(***************************************************************************)
(* set_kth_last_var_value called on its own: a State with any variable     *)
(* stack of up to two frames, any k from 1 up to one more than the largest *)
(* frame, under both settings of the overflow checks.                      *)
(***************************************************************************)
VarNames == <<"$", "$k", "$v", "$w">>
FrameOf(n) == [i \in 1..n |-> Variable(VarNames[i], Integer(i))]
\* The stacks <<>>, <<f>> and <<f, g>> for frames of 0..MaxVars variables.
StackCat ==
  <<<<>>>>
  \o [i \in 1..(MaxVars + 1) |-> <<FrameOf(i - 1)>>]
  \o [i \in 1..((MaxVars + 1) * (MaxVars + 1)) |->
        <<FrameOf((i - 1) \div (MaxVars + 1)), FrameOf((i - 1) % (MaxVars + 1))>>]
NewValues == <<Integer(7), Str("x"), Nothing>>

SetInit ==
  /\ tree_set = [ids |-> <<>>, trees |-> <<>>]
  /\ data = Nothing
  /\ overflow_checks \in BOOLEAN
  /\ \E i \in 1..Len(StackCat) : states = <<[vars |-> StackCat[i], depth |-> 0]>>
  /\ \E k \in 1..(MaxVars + 1) : \E i \in 1..Len(NewValues) :
       kont = <<[op |-> "set", k |-> k, value |-> NewValues[i]]>>
  /\ out = ""
  /\ pc = "call"
  /\ err = ""

\* self.set_kth_last_var_value(k, value): returns Ok or Err, or panics.
SetKthLast ==
  /\ pc = "call"
  /\ LET r == set_kth_last_var_value(CurVars, Top.k, Top.value, overflow_checks)
     IN /\ states' = SetVars(r.vars)
        /\ pc' = IF r.panic THEN "panic" ELSE "done"
        /\ err' = r.err
  /\ kont' = Tail(kont)
  /\ out' = out
  /\ UNCHANGED Inputs

SetNext == SetKthLast

SetSpec == SetInit /\ [][SetNext]_vars

(***************************************************************************)
(* Properties.                                                             *)
(***************************************************************************)
AtOp(op) == pc = "run" /\ Len(kont) > 0 /\ Top.op = op
Iterable(v) == v.kind \in {"Array", "Map", "Object"}

\* C1: for a range over an Array, Map or Object, else_list is walked if and
\* only if the value has no elements and else_list is present: once the
\* iterations are over, the work left is else_list exactly in that case and
\* nothing otherwise.
C1_ElseIffEmpty ==
  [][(AtOp("range_else") /\ Iterable(Top.val))
       => IF Len(Top.val.items) = 0 /\ Top.range.has_else
          THEN kont' = walk_list(Top.range.else_list, Top.dot) \o Tail(kont)
          ELSE kont' = Tail(kont)]_vars

\* C2: whenever one_iteration returns, with Ok or with Err, the variable
\* stack has as many frames as when one_iteration was entered.
C2_FramePoppedOnEveryExit ==
  [][(pc \in {"run", "unwind"} /\ Len(kont) > 0 /\ Top.op = "iter_end")
       => Len(CurVars') = Top.entry]_vars

\* C3: a Template node with a pipeline walks the named root against the value
\* of that pipeline, evaluated in the caller's context, and binds `$` of the
\* new State to it.
C3_TemplateDotFromPipe ==
  [][(Walking("Template") /\ Top.node.has_pipe
        /\ eval_pipeline(CurVars, Top.dot, Top.node.pipe).ok
        /\ Len(states') = Len(states) + 1)
       => /\ kont'[1].dot = eval_pipeline(CurVars, Top.dot, Top.node.pipe).val
          /\ states'[Len(states')].vars
               = <<<<Variable("$", eval_pipeline(CurVars, Top.dot, Top.node.pipe).val)>>>>]_vars

\* C4: walk_range on a pipe value that is no Array, Map or Object (a dot that
\* is no Value included) returns an error and walks nothing.
C4_NonIterableRangeFails ==
  [][(Walking("Range")
        /\ eval_pipeline(CurVars, Top.dot, Top.node.pipe).ok
        /\ ~Iterable(eval_pipeline(CurVars, Top.dot, Top.node.pipe).val))
       => pc' = "unwind"]_vars

\* The top frame at the entry of one_iteration, and the same frame after it.
IterFrame == CurVars[Len(CurVars)]
IterFrameAfter == CurVars'[Len(CurVars)]
IterDecl == Top.range.pipe.decl
\* one_iteration got past the rebinding and pushed its frame.
IterationEntered == AtOp("iter") /\ Len(IterDecl) > 0 /\ pc' = "run"

\* C5 as claimed: the first declared variable is rebound to the element and,
\* with two or more declared, the second declared variable to the key.
C5_FirstDeclaredGetsElement ==
  [][IterationEntered
       => /\ IterFrameAfter[Len(IterFrame) - Len(IterDecl) + 1].value = Top.val
          /\ Len(IterDecl) >= 2
               => IterFrameAfter[Len(IterFrame) - Len(IterDecl) + 2].value = Top.key]_vars

\* C5 as amended: the declared variables are the last slots of the top frame;
\* the last declared variable is rebound to the element and, with two or more
\* declared, the one declared just before it to the key; no other variable of
\* any frame or State changes, and the frame pushed for the body is empty.
C5_LastDeclaredGetsElement ==
  [][IterationEntered
       => /\ \A i \in 1..Len(IterDecl) :
               IterFrame[Len(IterFrame) - Len(IterDecl) + i].name = IterDecl[i].ident[1]
          /\ Len(IterFrameAfter) = Len(IterFrame)
          /\ IterFrameAfter[Len(IterFrame)] = Variable(IterDecl[Len(IterDecl)].ident[1], Top.val)
          /\ Len(IterDecl) >= 2
               => IterFrameAfter[Len(IterFrame) - 1]
                    = Variable(IterDecl[Len(IterDecl) - 1].ident[1], Top.key)
          /\ \A i \in 1..Len(IterFrame) :
               (i < Len(IterFrame) - 1 \/ (i = Len(IterFrame) - 1 /\ Len(IterDecl) = 1))
                 => IterFrameAfter[i] = IterFrame[i]
          /\ CurVars' = Append([CurVars EXCEPT ![Len(CurVars)] = IterFrameAfter], <<>>)
          /\ \A s \in 1..(Len(states) - 1) : states'[s] = states[s]]_vars

\* C5 witness: the second iteration of `range $k, $v := .` over [11, 12] has
\* rebound $k to the key 1 and $v to the element 12.
C5_Witness ==
  /\ pc = "run" /\ Len(states) = 1 /\ Len(CurVars) = 2
  /\ CurVars[2] = <<>>
  /\ CurVars[1] = <<Variable("$", ArrayOf(2)), Variable("$k", Integer(1)),
                    Variable("$v", Integer(12))>>

LiteralTypes == {"Bool", "Number", "String"}
LiteralPipe(p) ==
  /\ Len(p.decl) = 0 /\ Len(p.cmds) = 1 /\ Len(p.cmds[1].args) = 1
  /\ p.cmds[1].args[1].type \in LiteralTypes

\* C6: an action whose pipeline is one command made of one Bool, Number or
\* String literal succeeds and writes that literal.
C6_LiteralCommand ==
  [][(Walking("Action") /\ LiteralPipe(Top.node.pipe))
       => /\ pc' = "run"
          /\ out' = out \o to_string(Top.node.pipe.cmds[1].args[1].value)]_vars

NonFunctionTypes == {"Field", "Variable", "Chain", "Pipe", "Dot", "Bool", "Number", "String"}
\* Command k of p is no function and has arguments or a pipeline input.
ArgumentToNonFunction(p, types) ==
  \E k \in 1..Len(p.cmds) :
    /\ Len(p.cmds[k].args) >= 1
    /\ p.cmds[k].args[1].type \in types
    /\ Len(p.cmds[k].args) > 1 \/ k > 1

\* C7: a pipeline in which a command whose first node is no Identifier has
\* further arguments or a preceding stage fails.
C7_NonFunctionRejectsArguments ==
  [][(Walking("Action") /\ ArgumentToNonFunction(Top.node.pipe, NonFunctionTypes))
       => pc' = "unwind"]_vars

\* C8: a template invocation runs in a new State of one frame holding the one
\* binding of `$` to the dot its root is walked against; the States of its
\* callers are the same before, during and after the invocation, whether it
\* returns Ok or Err.
C8_TemplateIsolation ==
  [][/\ Len(states') > Len(states) /\ Len(states) > 0
          => /\ Walking("Template")
             /\ SubSeq(states', 1, Len(states)) = states
             /\ Len(states') = Len(states) + 1
             /\ kont'[1].op = "walk"
             /\ states'[Len(states')].vars = <<<<Variable("$", kont'[1].dot)>>>>
     /\ Len(states') = Len(states)
          => \A s \in 1..(Len(states) - 1) : states'[s] = states[s]
     /\ Len(states') < Len(states)
          => states' = SubSeq(states, 1, Len(states) - 1)]_vars

\* C8 witness: {{$x := 1}}{{template "t"}}{{$y}} with t = {{$y := 2}}{{$y}}:
\* t has printed its $y, and after its return the caller, whose frame still
\* holds $ and $x only, fails to resolve $y.
C8_Witness ==
  /\ pc = "done" /\ out = "2" /\ err = "variable not found"
  /\ Len(states) = 1 /\ Len(states[1].vars) = 1
  /\ Len(states[1].vars[1]) = 2 /\ states[1].vars[1][2] = Variable("$x", Integer(1))

\* A value v that can be written as a literal argument, and that literal.
Typable(v) == v.kind \in {"Bool", "Integer", "String"}
Literal(v) ==
  [type |-> IF v.kind = "Integer" THEN "Number" ELSE v.kind, value |-> v]
\* {{ b v | ... }} for the pipeline p = {{ a | b | ... }}.
Folded(p, v) ==
  PipeN(p.decl, <<CommandN(Append(p.cmds[2].args, Literal(v)))>> \o SubSeq(p.cmds, 3, Len(p.cmds)))
FoldCase ==
  /\ Walking("Action")
  /\ Len(Top.node.pipe.decl) = 0
  /\ Len(Top.node.pipe.cmds) >= 2
  /\ Len(Top.node.pipe.cmds[2].args) >= 1
  /\ eval_command(CurVars, Top.dot, Top.node.pipe.cmds[1], None).ok
  /\ eval_command(CurVars, Top.dot, Top.node.pipe.cmds[1], None).vars = CurVars
  /\ Typable(eval_command(CurVars, Top.dot, Top.node.pipe.cmds[1], None).val)
\* What rendering {{ b v | ... }} gives in place of the action on top.
FoldedResult ==
  eval_pipeline(CurVars, Top.dot,
                Folded(Top.node.pipe, eval_command(CurVars, Top.dot, Top.node.pipe.cmds[1], None).val))

\* C9: rendering {{ a | b }} where a produces v gives what rendering {{ b v }}
\* gives, v written after the arguments of b: the same text or the same error.
\* The case is that of an a that only produces v: an a that also declares a
\* variable, as in {{ ($x := 1) | lt $x }}, changes what the arguments of b
\* stand for, and {{ b v }} is then no rendering of the same b.
C9_PipelineFold ==
  [][FoldCase
       => IF FoldedResult.ok
          THEN pc' = "run" /\ out' = out \o to_string(FoldedResult.val)
          ELSE pc' = "unwind" /\ err' = FoldedResult.err /\ out' = out]_vars

\* C9 witness: {{ 1 | lt 2 }} has rendered as {{ lt 2 1 }} does.
C9_Witness ==
  /\ pc = "done" /\ out = "false" /\ err = ""
  /\ tree_set = Single(ListN(<<ActionN(P2(Cmd1(NumberN(1)), Cmd2(Fn("lt"), NumberN(2))))>>))

\* An action {{ .f }} or {{ .f.g }} without arguments.
FieldAction(n) ==
  /\ Walking("Action")
  /\ Len(Top.node.pipe.decl) = 0 /\ Len(Top.node.pipe.cmds) = 1
  /\ Len(Top.node.pipe.cmds[1].args) = 1
  /\ Top.node.pipe.cmds[1].args[1].type = "Field"
  /\ Len(Top.node.pipe.cmds[1].args[1].ident) = n
FieldName(i) == Top.node.pipe.cmds[1].args[1].ident[i]
Absent(v, f) == ~(v.kind \in {"Map", "Object"} /\ HasKey(v.items, f))

\* C10: access to an absent field, without arguments or pipeline input,
\* yields NoValue on a Map, rendered as "<no value>", and is an error on an
\* Object and on every other receiver, the NoValue that an earlier step of the
\* same field chain produced included.
C10_MissingField ==
  [][/\ (FieldAction(1) /\ Absent(Top.dot, FieldName(1)))
          => IF Top.dot.kind = "Map"
             THEN pc' = "run" /\ err' = "" /\ out' = out \o "<no value>"
             ELSE pc' = "unwind" /\ out' = out
     /\ (FieldAction(2) /\ Top.dot.kind = "Map" /\ Absent(Top.dot, FieldName(1)))
          => pc' = "unwind" /\ err' = "only maps and objects have fields" /\ out' = out]_vars

\* C10 witness: {{ .zzz }} on a Map without zzz has rendered the NoValue text.
C10_Witness ==
  /\ pc = "done" /\ err = "" /\ out = "<no value>" /\ data.kind = "Map"
  /\ tree_set = Single(ListN(<<ActionN(P1(Cmd1(FieldN(<<"zzz">>))))>>))

\* The value of the pipe of the If or With node on top.
BranchPipe == eval_pipeline(CurVars, Top.dot, Top.node.pipe)
BranchCase == (Walking("If") \/ Walking("With")) /\ BranchPipe.ok

\* C11: a With node walks its body if and only if the pipe value is truthy,
\* and then with dot set to the pipe value; on a falsy pipe value it walks
\* else_list, when present, with the caller's dot and nothing otherwise; an If
\* node walks either branch with the caller's dot.
C11_WithShadowsBodyOnly ==
  [][BranchCase
       => /\ pc' = "run"
          /\ kont' = (IF is_true(BranchPipe.val)
                      THEN walk_list(Top.node.list,
                                     IF Top.node.type = "With" THEN BranchPipe.val ELSE Top.dot)
                      ELSE IF Top.node.has_else
                           THEN walk_list(Top.node.else_list, Top.dot)
                           ELSE <<>>) \o Tail(kont)]_vars

\* C11 witness: {{with .foo}}{{.}}{{else}}{{.}}{{end}} on the Map {a: 21},
\* where .foo is NoValue, has written the Map itself from the else branch.
C11_Witness ==
  /\ pc = "done" /\ err = "" /\ data = MapOf(1) /\ out = "map[a:21]"
  /\ tree_set = Single(ListN(<<WithElseN(P1(Cmd1(FieldN(<<"foo">>))),
                                         <<ActionN(PDot)>>, <<ActionN(PDot)>>)>>))

\* The node on top evaluates a pipeline, and the evaluation returns Err.
EvalPipe == eval_pipeline(CurVars, Top.dot, Top.node.pipe)
EvalFails ==
  /\ pc = "run" /\ Len(kont) > 0 /\ Top.op = "walk"
  /\ Top.node.type \in {"Action", "If", "With", "Range"}
  /\ ~EvalPipe.ok

\* C12: an error is propagated at once and nothing is rolled back.  A failing
\* evaluation makes the render return that error; while an error is
\* returning no node is walked (the pending work is only dropped), nothing is
\* written and the error stays the same until execute returns it; without an
\* error execute returns Ok; and the sink only ever grows, by the text of the
\* Text or Action node being walked.
C12_EagerPropagation ==
  [][/\ EvalFails => (pc' = "unwind" /\ err' = EvalPipe.err /\ out' = out)
     /\ (pc = "run" /\ pc' = "unwind") => (out' = out /\ err' # "" /\ kont' = Tail(kont))
     /\ pc = "unwind"
          => /\ out' = out /\ err' = err /\ err # ""
             /\ pc' = (IF Len(kont) > 0 THEN "unwind" ELSE "done")
             /\ kont' = (IF Len(kont) > 0 THEN Tail(kont) ELSE kont)
     /\ pc = "run" => (err = "" /\ (pc' \in {"run", "done"} => err' = ""))
     /\ \/ out' = out
        \/ Walking("Text") /\ out' = out \o Top.node.text
        \/ Walking("Action") /\ EvalPipe.ok /\ out' = out \o to_string(EvalPipe.val)]_vars

\* C12 witness: A{{range .}}{{.}}{{.zzz}}{{else}}E{{end}}T on [11, 12] failed
\* at .zzz of the first element: "A11" stays written, and neither the second
\* iteration nor the else branch nor the text T added to it.
C12_Witness ==
  /\ pc = "done" /\ out = "A11" /\ err = "only maps and objects have fields"
  /\ data = ArrayOf(2)

\* The first binding of the bottom frame of State s.
RootBinding(s) == states[s].vars[1][1]
RootBound(s) ==
  /\ Len(states[s].vars) >= 1 /\ Len(states[s].vars[1]) >= 1
  /\ RootBinding(s).name = "$"
\* No variable of the current State other than the first is named `$`.
NoOtherRoot ==
  \A f \in 1..Len(CurVars) : \A i \in 1..Len(CurVars[f]) :
    CurVars[f][i].name = "$" => (f = 1 /\ i = 1)

\* C13: in every state of a render every live State has a non-empty variable
\* stack whose bottom frame starts with `$`; execute binds it to the data and
\* a template invocation to the dot its root is walked against; no step
\* changes that binding while the State lives; and where no other variable
\* is named `$`, var_value of `$` is that binding's value.
C13_RootBinding ==
  /\ [](/\ \A s \in 1..Len(states) : RootBound(s)
        /\ Len(states) >= 1 => RootBinding(1).value = data
        /\ (Len(states) >= 1 /\ NoOtherRoot)
             => var_value(CurVars, "$") = Ok(RootBinding(Len(states)).value, CurVars))
  /\ [][/\ \A s \in 1..Len(states) :
             s <= Len(states') => states'[s].vars[1][1] = RootBinding(s)
        /\ (Len(states') > Len(states) /\ pc' = "run")
             => states'[Len(states')].vars[1][1] = Variable("$", kont'[1].dot)]_vars

\* C13 witness: in {{with .bar}}{{range $k, $v := .}}{{$}}{{end}}{{end}} on
\* the Object {foo, bar} the action {{$}} is about to be evaluated in the
\* range body: dot is the element 21, $k and $v have been rebound next to `$`
\* in the bottom frame, and `$` still resolves to the Object.
C13_Witness ==
  /\ Walking("Action") /\ Top.node.pipe = PVar("$")
  /\ data = FooObject /\ Top.dot = Integer(21)
  /\ CurVars = << <<Variable("$", FooObject), Variable("$k", Str("a")),
                    Variable("$v", Integer(21))>>, <<>> >>
  /\ var_value(CurVars, "$").val = FooObject

\* The top frame handed to set_kth_last_var_value.
SetFrame == CurVars[Len(CurVars)]

\* C14: set_kth_last_var_value(k, value) with k >= 1 on a stack with a top
\* frame: with at least k variables in the top frame it returns Ok, the k-th
\* variable from the end has the new value and nothing else has changed; with
\* fewer it returns the error "current var context smaller than k" and the
\* stack is unchanged; it never panics.
C14_SetKthLast ==
  [][(pc = "call" /\ Len(CurVars) >= 1 /\ Top.k >= 1)
       => IF Len(SetFrame) >= Top.k
          THEN /\ pc' = "done" /\ err' = ""
               /\ CurVars' = [CurVars EXCEPT
                                ![Len(CurVars)][Len(SetFrame) - Top.k + 1].value = Top.value]
          ELSE /\ pc' = "done" /\ err' = "current var context smaller than k"
               /\ CurVars' = CurVars]_vars

\* The names of the templates that the Template nodes below node invoke.
RECURSIVE node_calls(_)
list_calls(list) == UNION {node_calls(list.nodes[i]) : i \in 1..Len(list.nodes)}
node_calls(node) ==
  CASE node.type = "Template" -> {node.name}
    [] node.type = "List" -> list_calls(node)
    [] node.type \in {"If", "With", "Range"} -> list_calls(node.list) \cup list_calls(node.else_list)
    [] OTHER -> {}
TreeNames == {tree_set.trees[i].name : i \in 1..Len(tree_set.trees)}
Calls(name) ==
  IF HasTree(name) /\ GetTree(name).has_root THEN node_calls(GetTree(name).root) ELSE {}
\* The templates invoked from those of S through at most n further invocations.
RECURSIVE Invoked(_, _)
Invoked(S, n) == IF n = 0 THEN S ELSE Invoked(S \cup UNION {Calls(x) : x \in S}, n - 1)
\* No template invokes itself, directly or through others.
Acyclic == \A name \in TreeNames : name \notin Invoked(Calls(name), Len(tree_set.trees))

\* C15: with a template set whose invocation graph has no cycle, every call
\* of execute returns, with Ok or with Err.
C15_AcyclicTerminates == (pc = "init" /\ Acyclic) ~> (pc = "done")

\* C15 witness: {{range .}}{{template "t" .}}{{end}} on [11, 12], with t =
\* {{$y := .}}{{lt $y 12}}, has invoked t once per element and returned Ok.
C15_Witness ==
  /\ pc = "done" /\ err = "" /\ out = "truefalse" /\ data = ArrayOf(2)
  /\ Acyclic /\ Calls("main") = {"t"}

\* Frame g is frame f with variables appended (values may have been rebound).
Grown(f, g) == Len(g) >= Len(f) /\ \A i \in 1..Len(f) : g[i].name = f[i].name
\* The step stays within the current State.
SameState == Len(states) >= 1 /\ Len(states') = Len(states)
DeclaringNode ==
  /\ pc = "run" /\ Len(kont) > 0 /\ Top.op = "walk"
  /\ Top.node.type \in {"Action", "If", "With", "Range"}
  /\ EvalPipe.ok
TopFrameAfter == CurVars'[Len(CurVars')]
ScopeNames == {"$", "$x", "$y", "$z", "$k", "$v", "$a"}

\* C16: within one State a frame only grows by appending: a frame is pushed
\* only, empty, at the head of a range iteration and popped only, whole, at
\* its end; the pipeline of an action, if, with or range node leaves the
\* number of frames as it is and appends its declared variables, bound to the
\* pipe value, to the top frame; a variable that var_value resolves stays
\* resolvable as long as no frame is popped; and when the iterations over an
\* Array are over, the last declared variable of the range still holds the
\* last element.
C16_FramesOnlyGrow ==
  [][/\ SameState =>
          /\ Len(CurVars') >= Len(CurVars)
               => /\ \A f \in 1..Len(CurVars) : Grown(CurVars[f], CurVars'[f])
                  /\ \A nm \in ScopeNames :
                       var_value(CurVars, nm).ok => var_value(CurVars', nm).ok
          /\ Len(CurVars') > Len(CurVars)
               => /\ AtOp("iter")
                  /\ Len(CurVars') = Len(CurVars) + 1 /\ TopFrameAfter = <<>>
                  /\ \A f \in 1..Len(CurVars) : Len(CurVars'[f]) = Len(CurVars[f])
          /\ Len(CurVars') < Len(CurVars)
               => /\ AtOp("iter_end")
                  /\ CurVars' = SubSeq(CurVars, 1, Len(CurVars) - 1)
     /\ DeclaringNode =>
          /\ Len(CurVars') = Len(CurVars)
          /\ Len(TopFrameAfter) >= Len(Top.node.pipe.decl)
          /\ \A i \in 1..Len(Top.node.pipe.decl) :
               TopFrameAfter[Len(TopFrameAfter) - Len(Top.node.pipe.decl) + i]
                 = Variable(Top.node.pipe.decl[i].ident[1], EvalPipe.val)
     /\ (AtOp("range_else") /\ Top.val.kind = "Array" /\ Len(Top.val.items) > 0
           /\ Len(Top.range.pipe.decl) > 0)
          => IterFrame[Len(IterFrame)]
               = Variable(Top.range.pipe.decl[Len(Top.range.pipe.decl)].ident[1],
                          Top.val.items[Len(Top.val.items)])]_vars

\* C16 witness: {{range $v := .}}{{$v}}{{end}}{{$v}} on [11, 12] has printed
\* $v after the loop: it is still in the frame and holds the last element.
C16_Witness ==
  /\ pc = "done" /\ err = "" /\ out = "111212"
  /\ CurVars = << <<Variable("$", ArrayOf(2)), Variable("$v", Integer(12))>> >>
====
